---- MODULE Spec2Model ----
(***************************************************************************)
(* Texture resource of the crown engine: the data compiler's texture job   *)
(* (texture_resource_internal::compile, parse_output,                      *)
(* texture_format_to_enum) and the runtime lifecycle callbacks             *)
(* (load, online, offline, unload) of src/resource/texture_resource.cpp.   *)
(*                                                                         *)
(* C strings are sequences of one-character strings, so that strcmp,       *)
(* snprintf truncation and "is this argument the flag" are computed.       *)
(* An optional JSON key is a sequence of length 0 (absent) or 1 (present). *)
(***************************************************************************)
EXTENDS Integers, Sequences, FiniteSets, TLC

(* ------------------------------ bounds --------------------------------- *)
\* longest converter payload, in bytes
MaxPayload == 2
\* capacity of the backend's texture handle pool
MaxTextures == 2

(* --------------------------- C string helpers -------------------------- *)
Min(a, b) == IF a < b THEN a ELSE b

DigitChars == <<"0", "1", "2", "3", "4", "5", "6", "7", "8", "9">>

RECURSIVE FmtU(_)
\* "%u": decimal digits of an unsigned value, most significant first
FmtU(n) == IF n < 10 THEN <<DigitChars[n + 1]>>
           ELSE FmtU(n \div 10) \o <<DigitChars[(n % 10) + 1]>>

\* snprintf(buf, size, ...): at most size-1 characters are kept
snprintf(size, text) == SubSeq(text, 1, Min(Len(text), size - 1))

HasPrefix(s, p) == Len(s) >= Len(p) /\ SubSeq(s, 1, Len(p)) = p

RECURSIVE Flatten(_)
Flatten(chunks) == IF chunks = <<>> THEN <<>>
                   ELSE Head(chunks) \o Flatten(Tail(chunks))

\* number of positions of a sequence whose element satisfies a test
CountIdx(seq, Test(_)) == Cardinality({i \in 1..Len(seq) : Test(seq[i])})

(* ------------------------- optional JSON values ------------------------ *)
Opt(S) == {<<>>} \cup {<<v>> : v \in S}
\* json_object::has(obj, key)
has(field) == field # <<>>

(* ----------------------------- literals -------------------------------- *)
S_f       == <<"-", "f">>
S_o       == <<"-", "o">>
S_t       == <<"-", "t">>
S_n       == <<"-", "n">>
S_m       == <<"-", "m">>
S_empty   == <<>>
S_mipskip == <<"-", "-", "m", "i", "p", "s", "k", "i", "p">>
\* the format string "--mipskip %u" up to the conversion
S_mipskip_fmt == S_mipskip \o <<" ">>
\* sizeof(mipskip)
MipskipBufSize == 16

\* EXE_PATH("texturec"), EXE_PATH("texturec-release")
texturec_paths ==
    << <<"t", "e", "x", "t", "u", "r", "e", "c">>,
       <<"t", "e", "x", "t", "u", "r", "e", "c", "-", "r", "e", "l", "e", "a", "s", "e">> >>

(* --------------------------- TextureFormat ----------------------------- *)
BC1   == 0
BC2   == 1
BC3   == 2
BC4   == 3
BC5   == 4
PTC14 == 5
RGB8  == 6
RGBA8 == 7
COUNT == 8

N_BC1   == <<"B", "C", "1">>
N_BC2   == <<"B", "C", "2">>
N_BC3   == <<"B", "C", "3">>
N_BC4   == <<"B", "C", "4">>
N_BC5   == <<"B", "C", "5">>
N_PTC14 == <<"P", "T", "C", "1", "4">>
N_RGB8  == <<"R", "G", "B", "8">>
N_RGBA8 == <<"R", "G", "B", "A", "8">>

s_texture_formats ==
    << [name |-> N_BC1,   type |-> BC1],
       [name |-> N_BC2,   type |-> BC2],
       [name |-> N_BC3,   type |-> BC3],
       [name |-> N_BC4,   type |-> BC4],
       [name |-> N_BC5,   type |-> BC5],
       [name |-> N_PTC14, type |-> PTC14],
       [name |-> N_RGB8,  type |-> RGB8],
       [name |-> N_RGBA8, type |-> RGBA8] >>

RecognizedNames == {s_texture_formats[i].name : i \in 1..Len(s_texture_formats)}

\* strings that are not format names: wrong case, a proper prefix of a
\* name, a name with a trailing character, the empty string
UnrecognizedNames ==
    { <<"b", "c", "3">>, <<"R", "G", "B", "A">>, <<"B", "C", "1", "0">>, <<>> }

FormatNames == RecognizedNames \cup UnrecognizedNames

RECURSIVE FormatLoopShort(_, _)
\* the loop stopping one entry early
FormatLoopShort(format, i) ==
    IF i + 1 >= Len(s_texture_formats) THEN COUNT
    ELSE IF format = s_texture_formats[i + 1].name
         THEN s_texture_formats[i + 1].type
         ELSE FormatLoopShort(format, i + 1)

RECURSIVE FormatLoop(_, _)
\* the for loop of texture_format_to_enum, from index i on
FormatLoop(format, i) ==
    IF i >= Len(s_texture_formats) THEN COUNT
    ELSE IF format = s_texture_formats[i + 1].name
         THEN s_texture_formats[i + 1].type
         ELSE FormatLoop(format, i + 1)

texture_format_to_enum(format) == FormatLoop(format, 0)

\* s_texture_formats[f].name; an index past the table reads whatever
\* follows the array
GarbageNames == { <<>>, <<"?">> }
FormatNameAt(f) == IF f \in 0..(Len(s_texture_formats) - 1)
                   THEN {s_texture_formats[f + 1].name}
                   ELSE GarbageNames

(* --------------------------- OutputSettings ---------------------------- *)
OutputSettings == [format |-> RGBA8, generate_mips |-> TRUE,
                   mip_skip_smallest |-> 0, normal_map |-> FALSE]

NoError == [msg |-> "none", arg |-> <<>>]
Error(m, a) == [msg |-> m, arg |-> a]

\* parse_output taking the block of whichever platform has one
parse_output_any_platform(os0, output, platform_name) ==
    IF \A q \in DOMAIN output : ~has(output[q])
    THEN [os |-> os0, rc |-> 0, err |-> NoError]
    ELSE LET q   == IF has(output[platform_name]) THEN platform_name
                    ELSE CHOOSE r \in DOMAIN output : has(output[r])
             obj == output[q][1]
             fmt == IF has(obj.format) THEN texture_format_to_enum(obj.format[1]) ELSE os0.format
         IN IF fmt = COUNT
            THEN [os |-> [os0 EXCEPT !.format = COUNT], rc |-> -1,
                  err |-> Error("Unknown texture format", obj.format[1])]
            ELSE [os  |-> [format            |-> fmt,
                           generate_mips     |-> IF has(obj.generate_mips)
                                                 THEN obj.generate_mips[1] ELSE os0.generate_mips,
                           mip_skip_smallest |-> IF has(obj.mip_skip_smallest)
                                                 THEN obj.mip_skip_smallest[1] ELSE os0.mip_skip_smallest,
                           normal_map        |-> IF has(obj.normal_map)
                                                 THEN obj.normal_map[1] ELSE os0.normal_map],
                  rc  |-> 0,
                  err |-> NoError]

\* parse_output without the format assertion: an unknown name leaves the
\* default format in place
parse_output_coerces(os0, output, platform_name) ==
    IF ~has(output[platform_name])
    THEN [os |-> os0, rc |-> 0, err |-> NoError]
    ELSE LET obj == output[platform_name][1]
             fmt == IF has(obj.format) THEN texture_format_to_enum(obj.format[1]) ELSE COUNT
         IN [os  |-> [format            |-> IF fmt # COUNT THEN fmt ELSE os0.format,
                      generate_mips     |-> IF has(obj.generate_mips)
                                            THEN obj.generate_mips[1] ELSE os0.generate_mips,
                      mip_skip_smallest |-> IF has(obj.mip_skip_smallest)
                                            THEN obj.mip_skip_smallest[1] ELSE os0.mip_skip_smallest,
                      normal_map        |-> IF has(obj.normal_map)
                                            THEN obj.normal_map[1] ELSE os0.normal_map],
             rc  |-> 0,
             err |-> NoError]

\* parse_output: os is updated in place; the format assertion returns
\* before the remaining keys are read
parse_output(os0, output, platform_name) ==
    IF ~has(output[platform_name])
    THEN [os |-> os0, rc |-> 0, err |-> NoError]
    ELSE LET obj == output[platform_name][1]
             os1 == IF has(obj.format)
                    THEN [os0 EXCEPT !.format = texture_format_to_enum(obj.format[1])]
                    ELSE os0
         IN IF has(obj.format) /\ os1.format = COUNT
            THEN [os |-> os1, rc |-> -1,
                  err |-> Error("Unknown texture format", obj.format[1])]
            ELSE LET os2 == IF has(obj.generate_mips)
                            THEN [os1 EXCEPT !.generate_mips = obj.generate_mips[1]]
                            ELSE os1
                     os3 == IF has(obj.mip_skip_smallest)
                            THEN [os2 EXCEPT !.mip_skip_smallest = obj.mip_skip_smallest[1]]
                            ELSE os2
                     os4 == IF has(obj.normal_map)
                            THEN [os3 EXCEPT !.normal_map = obj.normal_map[1]]
                            ELSE os3
                 IN [os |-> os4, rc |-> 0, err |-> NoError]

\* the legacy keys also used when "output" lacks the platform
ResolveSettingsLegacyFallback(d, platform_name) ==
    IF has(d.output) /\ has(d.output[1][platform_name])
    THEN parse_output(OutputSettings, d.output[1], platform_name)
    ELSE [os  |-> [OutputSettings EXCEPT !.generate_mips = d.generate_mips,
                                         !.normal_map    = d.normal_map],
          rc  |-> 0,
          err |-> NoError]

\* compile, lines 184-194: the settings a descriptor resolves to
ResolveSettings(d, platform_name) ==
    IF has(d.output)
    THEN parse_output(OutputSettings, d.output[1], platform_name)
    ELSE [os  |-> [OutputSettings EXCEPT !.generate_mips = d.generate_mips,
                                         !.normal_map    = d.normal_map],
          rc  |-> 0,
          err |-> NoError]

\* compile, lines 207-224: the argument vector (without the NULL terminator)
BuildArgv(texturec, tex_src, tex_out_path, format_name, os0) ==
    LET mipskip == snprintf(MipskipBufSize, S_mipskip_fmt \o FmtU(os0.mip_skip_smallest))
    IN << texturec, S_f, tex_src, S_o, tex_out_path, S_t, format_name,
          IF os0.normal_map THEN S_n ELSE S_empty,
          IF os0.generate_mips THEN S_m ELSE S_empty,
          IF os0.mip_skip_smallest > 0 THEN S_mipskip ELSE S_empty,
          IF os0.mip_skip_smallest > 0 THEN mipskip ELSE S_empty >>

(* ------------------------------ inputs --------------------------------- *)
Platforms == {"linux", "android"}

\* values of the mip_skip_smallest key; 123456 needs more characters than
\* the mipskip buffer holds
SkipValues == {0, 2, 123456}

\* the object under output.<platform>: every format name with the other
\* keys absent, and a recognized name, an unrecognized name and no name
\* with every combination of the other keys
CoreFormats == Opt({N_BC3, <<"b", "c", "3">>})

Blocks ==
    [format            : CoreFormats,
     generate_mips     : Opt(BOOLEAN),
     mip_skip_smallest : Opt(SkipValues),
     normal_map        : Opt(BOOLEAN)]
    \cup
    [format            : Opt(FormatNames),
     generate_mips     : {<<>>},
     mip_skip_smallest : {<<>>},
     normal_map        : {<<>>}]

\* what the blocks of the platforms that are not compiled for range over
OtherBlocks ==
    { [format |-> << <<"b", "c", "3">> >>, generate_mips |-> <<>>,
       mip_skip_smallest |-> <<>>, normal_map |-> <<>>],
      [format |-> <<N_BC1>>, generate_mips |-> <<FALSE>>,
       mip_skip_smallest |-> <<2>>, normal_map |-> <<TRUE>>] }

SourceName == <<"i", "m", "g", ".", "p", "n", "g">>

\* descriptors for a job on platform p: every shape of p's own block, a few
\* shapes of the other platforms' blocks, both legacy keys
OutputsFor(p) ==
    { [q \in Platforms |-> IF q = p THEN own ELSE others[q]] :
        own \in Opt(Blocks), others \in [Platforms \ {p} -> Opt(OtherBlocks)] }

DescriptorsFor(p) ==
    [source        : Opt({SourceName}),
     output        : Opt(OutputsFor(p)),
     generate_mips : BOOLEAN,
     normal_map    : BOOLEAN]

\* the descriptor of the specification's scenario, and a legacy one
ScenarioBlock == [format |-> <<N_BC3>>, generate_mips |-> <<TRUE>>,
                  mip_skip_smallest |-> <<2>>, normal_map |-> <<>>]

ScenarioDescriptors ==
    { [source |-> <<SourceName>>,
       output |-> << [q \in Platforms |-> IF q = "linux" THEN <<ScenarioBlock>> ELSE <<>>] >>,
       generate_mips |-> TRUE, normal_map |-> FALSE],
      [source |-> <<SourceName>>, output |-> <<>>,
       generate_mips |-> FALSE, normal_map |-> TRUE] }

\* bytes of converter output and of resource files
PayloadBytes == {0, 7}

RECURSIVE SeqsUpTo(_, _)
SeqsUpTo(S, n) == IF n = 0 THEN {<<>>}
                  ELSE LET shorter == SeqsUpTo(S, n - 1)
                       IN shorter \cup {Append(q, b) : q \in {r \in shorter : Len(r) = n - 1}, b \in S}

Payloads == SeqsUpTo(PayloadBytes, MaxPayload)

\* captured stdout/stderr of the converter
ToolOutputs == { <<>>, <<"E", "r", "r">> }
ExitCodes == {0, 1}

(* ------------------------- resource file format ------------------------ *)
\* RESOURCE_HEADER(RESOURCE_VERSION_TEXTURE); the number stands for the
\* header value, which spans more than one byte
VersionTag == 261

\* a u32 as it is laid out in the stream (little-endian)
U32Bytes(v) == << v % 256, (v \div 256) % 256, (v \div 65536) % 256, (v \div 16777216) % 256 >>

\* BinaryReader::read(u32 &) at an offset of a stream
ReadU32(stream, pos) ==
    stream[pos + 1] + 256 * stream[pos + 2] + 65536 * stream[pos + 3] + 16777216 * stream[pos + 4]

(* ------------------------------- state --------------------------------- *)
VARIABLES
    platform,       \* opts.platform_name()
    desc,           \* the parsed asset descriptor
    source_exists,  \* whether the file named by "source" exists
    pc,             \* position of the compile job
    os,             \* OutputSettings os
    err,            \* what opts.error reported
    deps,           \* files registered by opts.fake_read
    texturec,       \* result of opts.exe_path: <<>> is NULL
    tex_out,        \* the temporary output file
    argv,           \* argument vector handed to Process::spawn
    pr,             \* the converter process
    blob,           \* Buffer blob
    out,            \* chunks appended by opts.write, in order
    file,           \* the File handed to load and the reader's position
    tr,             \* the TextureResource allocation: <<>> when there is none
    textures,       \* backend textures alive, by handle index
    life,           \* lifecycle state of the instance (history)
    fatal,          \* a CE_ASSERT has aborted the runtime
    bad_destroy     \* bgfx::destroy was given a handle that is not alive (history)

cvars == <<platform, desc, source_exists, pc, os, err, deps, texturec, tex_out, argv, pr, blob, out>>

rvars == <<file, tr, textures, life, fatal, bad_destroy>>

vars == <<cvars, rvars>>

\* opts.absolute_path(tex_src, name)
absolute_path(name) == <<"/">> \o name
\* opts.temporary_path(tex_out, "ktx")
TempPath == <<"/", "t", "m", "p", ".", "k", "t", "x">>

NoTemp == [path |-> <<>>, exists |-> FALSE, data |-> <<>>, deletes |-> 0]
NoProcess == [state |-> "none", output |-> <<>>, ec |-> 0, produced |-> <<>>]

InitJob ==
    /\ source_exists \in BOOLEAN
    /\ pc = "read"
    /\ os = OutputSettings
    /\ err = NoError
    /\ deps = {}
    /\ texturec = <<>>
    /\ tex_out = NoTemp
    /\ argv = <<>>
    /\ pr = NoProcess
    /\ blob = <<>>
    /\ out = <<>>

\* BGFX_INVALID_HANDLE
BGFX_INVALID_HANDLE == 65535

NoFile == [stream |-> <<>>, pos |-> 0, compiled |-> FALSE]

InitRuntime ==
    /\ file = NoFile
    /\ tr = <<>>
    /\ textures = <<>>
    /\ life = [state |-> "Unloaded", prev |-> "Unloaded"]
    /\ fatal = FALSE
    /\ bad_destroy = FALSE

InitCompile ==
    /\ platform \in Platforms
    /\ desc \in DescriptorsFor(platform)
    /\ InitJob
    /\ InitRuntime

Init ==
    /\ platform = "linux"
    /\ desc \in ScenarioDescriptors
    /\ InitJob
    /\ InitRuntime

\* DATA_COMPILER_ASSERT / DATA_COMPILER_ENSURE failing: the error is
\* reported and compile returns
Fail(e) ==
    /\ pc' = "failed"
    /\ err' = e

\* the dependency registered ahead of the checks on "source"
CompileReadRegistersFirst ==
    /\ pc = "read"
    /\ deps' = deps \cup {IF has(desc.source) THEN desc.source[1] ELSE <<>>}
    /\ IF ~has(desc.source)
       THEN Fail(Error("MissingField", <<"s", "o", "u", "r", "c", "e">>))
       ELSE IF ~source_exists
            THEN Fail(Error("SourceNotFound", desc.source[1]))
            ELSE /\ pc' = "settings"
                 /\ UNCHANGED err
    /\ UNCHANGED <<platform, desc, source_exists, os, texturec, tex_out, argv, pr, blob, out, rvars>>

\* compile, lines 173-182
CompileRead ==
    /\ pc = "read"
    /\ IF ~has(desc.source)
       THEN Fail(Error("MissingField", <<"s", "o", "u", "r", "c", "e">>)) /\ UNCHANGED deps
       ELSE IF ~source_exists
            THEN Fail(Error("SourceNotFound", desc.source[1])) /\ UNCHANGED deps
            ELSE /\ deps' = deps \cup {desc.source[1]}
                 /\ pc' = "settings"
                 /\ UNCHANGED err
    /\ UNCHANGED <<platform, desc, source_exists, os, texturec, tex_out, argv, pr, blob, out, rvars>>

\* the result of parse_output not looked at
CompileSettingsIgnoresErr ==
    /\ pc = "settings"
    /\ LET r == ResolveSettings(desc, platform)
       IN /\ os' = r.os
          /\ pc' = "paths"
          /\ UNCHANGED err
    /\ UNCHANGED <<platform, desc, source_exists, deps, texturec, tex_out, argv, pr, blob, out, rvars>>

\* compile, lines 184-194
CompileSettings ==
    /\ pc = "settings"
    /\ LET r == ResolveSettings(desc, platform)
       IN /\ os' = r.os
          /\ IF r.rc # 0
             THEN Fail(r.err)
             ELSE pc' = "paths" /\ UNCHANGED err
    /\ UNCHANGED <<platform, desc, source_exists, deps, texturec, tex_out, argv, pr, blob, out, rvars>>

\* compile, lines 196-205
CompilePaths ==
    /\ pc = "paths"
    /\ tex_out' = [tex_out EXCEPT !.path = TempPath]
    /\ \E exe \in Opt({texturec_paths[i] : i \in 1..Len(texturec_paths)}) :
          /\ texturec' = exe
          /\ IF exe = <<>>
             THEN Fail(Error("texturec not found", <<>>))
             ELSE pc' = "spawn" /\ UNCHANGED err
    /\ UNCHANGED <<platform, desc, source_exists, os, deps, argv, pr, blob, out, rvars>>

\* compile, lines 207-231
CompileSpawn ==
    /\ pc = "spawn"
    /\ \E format_name \in FormatNameAt(os.format), sc \in {0, -1} :
          /\ argv' = BuildArgv(texturec[1], absolute_path(desc.source[1]),
                               tex_out.path, format_name, os)
          /\ IF sc # 0
             THEN Fail(Error("Failed to spawn", texturec[1])) /\ UNCHANGED pr
             ELSE /\ pr' = [pr EXCEPT !.state = "running"]
                  /\ pc' = "wait"
                  /\ UNCHANGED err
    /\ UNCHANGED <<platform, desc, source_exists, os, deps, texturec, tex_out, blob, out, rvars>>

\* the header written while the converter's exit code is still unchecked
CompileWaitWritesHeaderEarly ==
    /\ pc = "wait"
    /\ \E texturec_output \in ToolOutputs, ec \in ExitCodes, data \in Payloads, left \in BOOLEAN :
          /\ ec = 0 => left
          /\ ec # 0 => data = <<>>
          /\ pr' = [state |-> "exited", output |-> texturec_output, ec |-> ec, produced |-> data]
          /\ tex_out' = [tex_out EXCEPT !.exists = left, !.data = data]
          /\ out' = out \o << U32Bytes(VersionTag) >>
          /\ IF ec # 0
             THEN Fail(Error("Failed to compile texture", texturec_output))
             ELSE pc' = "collect" /\ UNCHANGED err
    /\ UNCHANGED <<platform, desc, source_exists, os, deps, texturec, argv, blob, rvars>>

\* the exit code check dropped: the job goes on to the temporary file
CompileWaitIgnoresExit ==
    /\ pc = "wait"
    /\ \E texturec_output \in ToolOutputs, ec \in ExitCodes, data \in Payloads, left \in BOOLEAN :
          /\ ec = 0 => left
          /\ ec # 0 => data = <<>>
          /\ pr' = [state |-> "exited", output |-> texturec_output, ec |-> ec, produced |-> data]
          /\ tex_out' = [tex_out EXCEPT !.exists = left, !.data = data]
          /\ pc' = "collect"
          /\ UNCHANGED err
    /\ UNCHANGED <<platform, desc, source_exists, os, deps, texturec, argv, blob, out, rvars>>

\* compile, lines 232-239; the converter has run: on exit code 0 it has
\* written the temporary file, otherwise it may or may not have left one
CompileWait ==
    /\ pc = "wait"
    /\ \E texturec_output \in ToolOutputs, ec \in ExitCodes, data \in Payloads, left \in BOOLEAN :
          /\ ec = 0 => left
          /\ ec # 0 => data = <<>>
          /\ pr' = [state |-> "exited", output |-> texturec_output, ec |-> ec, produced |-> data]
          /\ tex_out' = [tex_out EXCEPT !.exists = left, !.data = data]
          /\ IF ec # 0
             THEN Fail(Error("Failed to compile texture", texturec_output))
             ELSE pc' = "collect" /\ UNCHANGED err
    /\ UNCHANGED <<platform, desc, source_exists, os, deps, texturec, argv, blob, out, rvars>>

\* compile, lines 241-242
CompileCollect ==
    /\ pc = "collect"
    /\ blob' = tex_out.data
    /\ tex_out' = [tex_out EXCEPT !.exists = FALSE, !.data = <<>>, !.deletes = @ + 1]
    /\ pc' = "write"
    /\ UNCHANGED <<platform, desc, source_exists, os, err, deps, texturec, argv, pr, out, rvars>>

\* the size written ahead of the version tag
CompileWriteSizeFirst ==
    /\ pc = "write"
    /\ out' = out \o << U32Bytes(Len(blob)), U32Bytes(VersionTag), blob >>
    /\ pc' = "done"
    /\ UNCHANGED <<platform, desc, source_exists, os, err, deps, texturec, tex_out, argv, pr, blob, rvars>>

\* compile, lines 244-249
CompileWrite ==
    /\ pc = "write"
    /\ out' = out \o << U32Bytes(VersionTag), U32Bytes(Len(blob)), blob >>
    /\ pc' = "done"
    /\ UNCHANGED <<platform, desc, source_exists, os, err, deps, texturec, tex_out, argv, pr, blob, rvars>>

NextCompile ==
    \/ CompileRead
    \/ CompileSettings
    \/ CompilePaths
    \/ CompileSpawn
    \/ CompileWait
    \/ CompileCollect
    \/ CompileWrite

SpecCompile == InitCompile /\ [][NextCompile]_vars

(* --------------------------- runtime lifecycle ------------------------- *)
\* tags that are not the texture schema's: one differs from it in the
\* second byte only, one in the first byte only
BadTags == {5, 262}

\* resource files handed to load: well formed ones, ones whose size field
\* promises one byte more than the file holds, and ones with a foreign tag
InputStreams ==
    UNION { { U32Bytes(t) \o U32Bytes(n) \o q :
                n \in {m \in {Len(q), Len(q) + 1} : m <= MaxPayload} } :
            t \in {VersionTag} \cup BadTags, q \in Payloads }

MoveTo(s) == life' = [state |-> s, prev |-> life.state]

\* CE_ASSERT failing: the process is aborted on the spot
Abort == fatal' = TRUE

\* load with the version checked after the resource has been built
load_checks_late(f, compiled) ==
    /\ ~fatal
    /\ tr = <<>>
    /\ LET version == ReadU32(f, 0)
           size    == ReadU32(f, 4)
           got     == Min(size, Len(f) - 8)
       IN \E rest \in Payloads :
             /\ Len(rest) = size - got
             /\ tr' = << [data   |-> SubSeq(f, 9, 8 + got) \o rest,
                          size   |-> size,
                          handle |-> BGFX_INVALID_HANDLE] >>
             /\ file' = [stream |-> f, pos |-> 8 + got, compiled |-> compiled]
             /\ MoveTo("Loaded")
             /\ IF version # VersionTag THEN Abort ELSE UNCHANGED fatal
    /\ UNCHANGED <<textures, bad_destroy>>

\* load, lines 23-43; bytes the file cannot supply are left as the
\* allocator returned them
load(f, compiled) ==
    /\ ~fatal
    /\ tr = <<>>
    /\ LET version == ReadU32(f, 0)
       IN IF version # VersionTag
          THEN /\ Abort
               /\ file' = [stream |-> f, pos |-> 4, compiled |-> compiled]
               /\ UNCHANGED <<tr, life>>
          ELSE LET size == ReadU32(f, 4)
                   got  == Min(size, Len(f) - 8)
               IN \E rest \in Payloads :
                     /\ Len(rest) = size - got
                     /\ tr' = << [data   |-> SubSeq(f, 9, 8 + got) \o rest,
                                  size   |-> size,
                                  handle |-> BGFX_INVALID_HANDLE] >>
                     /\ file' = [stream |-> f, pos |-> 8 + got, compiled |-> compiled]
                     /\ MoveTo("Loaded")
                     /\ UNCHANGED fatal
    /\ UNCHANGED <<textures, bad_destroy>>

Load ==
    /\ \E f \in InputStreams : load(f, FALSE)
    /\ UNCHANGED cvars

\* load applied to the file a finished compile job has written
LoadCompiled ==
    /\ pc = "done"
    /\ load(Flatten(out), TRUE)
    /\ UNCHANGED cvars

FreeHandles == (0..(MaxTextures - 1)) \ DOMAIN textures

\* online, lines 45-49; bgfx::createTexture returns the invalid handle when
\* the pool is exhausted
online ==
    /\ ~fatal
    /\ tr # <<>>
    /\ IF FreeHandles = {}
       THEN /\ tr' = << [tr[1] EXCEPT !.handle = BGFX_INVALID_HANDLE] >>
            /\ UNCHANGED textures
       ELSE \E h \in FreeHandles :
               /\ textures' = [i \in DOMAIN textures \cup {h} |->
                                 IF i = h THEN [mem_valid |-> TRUE] ELSE textures[i]]
               /\ tr' = << [tr[1] EXCEPT !.handle = h] >>
    /\ MoveTo("Online")
    /\ UNCHANGED <<file, fatal, bad_destroy>>
    /\ UNCHANGED cvars

\* offline that also gives the allocation back
offline_frees ==
    /\ ~fatal
    /\ tr # <<>>
    /\ IF tr[1].handle \in DOMAIN textures
       THEN /\ textures' = [i \in DOMAIN textures \ {tr[1].handle} |-> textures[i]]
            /\ UNCHANGED bad_destroy
       ELSE /\ bad_destroy' = TRUE
            /\ UNCHANGED textures
    /\ MoveTo("Offline")
    /\ tr' = <<>>
    /\ UNCHANGED <<file, fatal>>
    /\ UNCHANGED cvars

\* offline, lines 51-55
offline ==
    /\ ~fatal
    /\ tr # <<>>
    /\ IF tr[1].handle \in DOMAIN textures
       THEN /\ textures' = [i \in DOMAIN textures \ {tr[1].handle} |-> textures[i]]
            /\ UNCHANGED bad_destroy
       ELSE /\ bad_destroy' = TRUE
            /\ UNCHANGED textures
    /\ MoveTo("Offline")
    /\ UNCHANGED <<file, tr, fatal>>
    /\ UNCHANGED cvars

\* unload, lines 57-60; textures made from the freed memory keep
\* referring to it
unload ==
    /\ ~fatal
    /\ tr # <<>>
    /\ tr' = <<>>
    /\ textures' = [i \in DOMAIN textures |-> [mem_valid |-> FALSE]]
    /\ MoveTo("Unloaded")
    /\ UNCHANGED <<file, fatal, bad_destroy>>
    /\ UNCHANGED cvars

\* the runtime on resource files as they may be found on disk
NextRuntime ==
    \/ Load
    \/ online
    \/ offline
    \/ unload

\* the pipeline: a compile job, then the runtime on the file it wrote
Next ==
    \/ CompileRead
    \/ CompileSettings
    \/ CompilePaths
    \/ CompileSpawn
    \/ CompileWait
    \/ CompileCollect
    \/ CompileWrite
    \/ LoadCompiled
    \/ online
    \/ offline
    \/ unload

Spec == Init /\ [][Next]_vars

SpecRuntime == Init /\ [][NextRuntime]_vars

(* ============================== claims ================================= *)

\* a step in which a backend texture was created for the instance
OnlineTookEffect == tr # <<>> /\ tr' # <<>> /\ (DOMAIN textures' \ DOMAIN textures) # {}
\* a step in which the allocation was released
UnloadTookEffect == tr # <<>> /\ tr' = <<>>

\* C1: online takes effect only from Loaded or Offline, unload takes
\* effect only from Offline, and an unload of an Online instance is
\* rejected: the allocation stays and no backend texture refers to freed
\* memory.
C1_LifecycleOrdering ==
    [][ /\ OnlineTookEffect => life.state \in {"Loaded", "Offline"}
        /\ UnloadTookEffect => life.state = "Offline"
        /\ life.state = "Online" => tr' # <<>>
        /\ \A h \in DOMAIN textures' : textures'[h].mem_valid ]_vars

\* C7: a file whose first u32 is not the texture tag aborts load with only
\* the tag consumed: the size field and the payload are not read, nothing
\* is allocated and no resource comes back; and load aborts for no other
\* reason.
C7_WrongTagIsFatal ==
    /\ fatal => /\ ReadU32(file.stream, 0) # VersionTag
                /\ file.pos = 4
                /\ tr = <<>>
    /\ (file.stream # <<>> /\ ReadU32(file.stream, 0) # VersionTag) => fatal

C7_Witness ==
    /\ fatal
    /\ file.pos = 4
    /\ Len(file.stream) > 8
    /\ file.stream[1] = VersionTag % 256

\* a step of online or offline that did something
OnOffStep ==
    /\ life'.state \in {"Online", "Offline"}
    /\ life' # life \/ textures' # textures \/ bad_destroy' # bad_destroy \/ tr' # tr

\* C10: online and offline leave the payload bytes and their size alone
\* and keep the allocation; only the handle may change. An Offline instance
\* is still allocated and online can be called on it again.
C10_OnlineOfflineKeepPayload ==
    /\ [](life.state = "Offline" => (tr # <<>> /\ ENABLED online))
    /\ [][ OnOffStep => /\ tr # <<>>
                        /\ tr' # <<>>
                        /\ tr'[1].data = tr[1].data
                        /\ tr'[1].size = tr[1].size ]_vars

C10_Witness ==
    /\ life = [state |-> "Online", prev |-> "Offline"]
    /\ tr # <<>>
    /\ Len(tr[1].data) >= 2
    /\ tr[1].handle \in DOMAIN textures

(* ----------------------- claims on the compiler ----------------------- *)
\* the block of the descriptor for the platform compiled for: <<>> if none
BlockOf(d, p) == IF has(d.output) THEN d.output[1][p] ELSE <<>>

\* lines 184-194 have run
SettingsResolved == deps # {} /\ pc \notin {"read", "settings"}
\* lines 184-194 have run and compile went on
SettingsAccepted == SettingsResolved /\ ~(pc = "failed" /\ texturec = <<>> /\ tex_out.path = <<>>)

IsMipskipFlag(arg) == arg = S_mipskip
MentionsMipskip(arg) == HasPrefix(arg, S_mipskip)
IsSkipCount(arg) == arg = FmtU(os.mip_skip_smallest)

\* C2: with a resolved mip_skip_smallest of 0 the argument vector has no
\* --mipskip flag at all; with a positive one the flag is there exactly
\* once and the count is there exactly once.
C2_MipskipOnce ==
    argv # <<>> =>
        /\ os.mip_skip_smallest = 0 => CountIdx(argv, MentionsMipskip) = 0
        /\ os.mip_skip_smallest > 0 =>
              /\ CountIdx(argv, MentionsMipskip) = 1
              /\ CountIdx(argv, IsMipskipFlag) = 1
              /\ CountIdx(argv, IsSkipCount) = 1

\* C3: when the spawned converter exits with a nonzero code the job has
\* failed, nothing was written to the output stream, and the reported
\* error carries the captured output of the converter.
C3_NonzeroExitFails ==
    (pr.state = "exited" /\ pr.ec # 0) =>
        /\ pc = "failed"
        /\ out = <<>>
        /\ err.msg = "Failed to compile texture"
        /\ err.arg = pr.output

C3_Witness ==
    /\ pr.state = "exited"
    /\ pr.ec = 1
    /\ pr.output = <<"E", "r", "r">>
    /\ pc = "failed"
    /\ err.arg = <<"E", "r", "r">>

\* the eight names in the order of the enumerators
EnumNames == <<N_BC1, N_BC2, N_BC3, N_BC4, N_BC5, N_PTC14, N_RGB8, N_RGBA8>>

\* the function on the names themselves
TableIsBijection ==
    /\ \A i \in 1..8 :
          /\ texture_format_to_enum(EnumNames[i]) = i - 1
          /\ s_texture_formats[texture_format_to_enum(EnumNames[i]) + 1].name = EnumNames[i]
    /\ \A i, j \in 1..8 : i # j => EnumNames[i] # EnumNames[j]
    /\ \A n \in UnrecognizedNames : texture_format_to_enum(n) = COUNT
    /\ COUNT \notin 0..7

\* C4: texture_format_to_enum maps the eight names one-to-one onto the
\* eight formats, the table entry of the result carries the name, and any
\* other string gives COUNT; the format a job resolved from its platform
\* block is the one so named.
C4_FormatBijection ==
    /\ TableIsBijection
    /\ (SettingsResolved /\ has(BlockOf(desc, platform)) /\ has(BlockOf(desc, platform)[1].format)) =>
          LET n == BlockOf(desc, platform)[1].format[1]
          IN IF \E i \in 1..8 : EnumNames[i] = n
             THEN os.format \in 0..7 /\ EnumNames[os.format + 1] = n
             ELSE os.format = COUNT

C4_Witness ==
    /\ SettingsResolved
    /\ has(BlockOf(desc, platform))
    /\ BlockOf(desc, platform)[1].format = <<N_RGBA8>>
    /\ os.format = RGBA8
    /\ pc = "paths"

\* the platform block names a format that is not one of the eight
BadFormat ==
    /\ has(BlockOf(desc, platform))
    /\ has(BlockOf(desc, platform)[1].format)
    /\ \A i \in 1..8 : EnumNames[i] # BlockOf(desc, platform)[1].format[1]

\* C5: an unrecognized format in the platform block fails the job with the
\* unknown-format error: the default format does not take its place, the
\* converter is never spawned and nothing is written.
C5_UnknownFormatFails ==
    BadFormat =>
        /\ argv = <<>>
        /\ pr.state = "none"
        /\ out = <<>>
        /\ SettingsResolved =>
              /\ pc = "failed"
              /\ err = Error("Unknown texture format", BlockOf(desc, platform)[1].format[1])
              /\ os.format # RGBA8
              /\ os.format = COUNT

C5_Witness ==
    /\ BadFormat
    /\ SettingsResolved
    /\ pc = "failed"
    /\ err.msg = "Unknown texture format"
    /\ err.arg = <<"R", "G", "B", "A">>

\* what a present key of the platform block sets, what an absent one leaves
FromBlock(obj) ==
    /\ has(obj.format) => (os.format \in 0..7 /\ EnumNames[os.format + 1] = obj.format[1])
    /\ has(obj.generate_mips) => os.generate_mips = obj.generate_mips[1]
    /\ has(obj.mip_skip_smallest) => os.mip_skip_smallest = obj.mip_skip_smallest[1]
    /\ has(obj.normal_map) => os.normal_map = obj.normal_map[1]

KeepsDefaults(obj) ==
    /\ ~has(obj.format) => os.format = RGBA8
    /\ ~has(obj.generate_mips) => os.generate_mips = TRUE
    /\ ~has(obj.mip_skip_smallest) => os.mip_skip_smallest = 0
    /\ ~has(obj.normal_map) => os.normal_map = FALSE

FromLegacyKeys ==
    /\ os.generate_mips = desc.generate_mips
    /\ os.normal_map = desc.normal_map
    /\ os.format = RGBA8

\* C8 as stated: with the platform in "output" the settings come from its
\* block; in every other case (no "output", or "output" without the
\* platform) generate_mips and normal_map come from the legacy keys and the
\* format stays RGBA8.
C8_LegacyInEveryOtherCase ==
    SettingsAccepted =>
        IF has(BlockOf(desc, platform))
        THEN FromBlock(BlockOf(desc, platform)[1])
        ELSE FromLegacyKeys

\* C8 amended: with the platform in "output" the settings come from its
\* block; with an "output" object that lacks the platform all four settings
\* keep their defaults and the legacy keys are ignored; only without an
\* "output" object generate_mips and normal_map come from the legacy keys,
\* with format RGBA8 and no mip skipping.
C8_LegacyOnlyWithoutOutput ==
    SettingsAccepted =>
        IF has(BlockOf(desc, platform))
        THEN FromBlock(BlockOf(desc, platform)[1])
        ELSE IF has(desc.output)
             THEN os = [format |-> RGBA8, generate_mips |-> TRUE,
                        mip_skip_smallest |-> 0, normal_map |-> FALSE]
             ELSE FromLegacyKeys /\ os.mip_skip_smallest = 0

C8_Witness ==
    /\ SettingsAccepted
    /\ has(desc.output)
    /\ ~has(BlockOf(desc, platform))
    /\ desc.generate_mips = FALSE
    /\ desc.normal_map = TRUE
    /\ os.generate_mips = TRUE
    /\ os.normal_map = FALSE
    /\ argv # <<>>

\* "output" objects that hold block b for platform p, with every shape of
\* the other platforms' blocks
OutputsWithBlock(b, p) ==
    { << [q \in Platforms |-> IF q = p THEN b ELSE others[q]] >> :
        others \in [Platforms \ {p} -> Opt(OtherBlocks)] }

\* descriptors that agree with d on "source", on the legacy keys and on
\* output[p], whatever else they hold under "output"
VariantsAsStated(d, p) ==
    { [d EXCEPT !.output = o] :
        o \in OutputsWithBlock(BlockOf(d, p), p) \cup
              (IF has(BlockOf(d, p)) THEN {} ELSE {<<>>}) }

\* descriptors with an "output" object that agree with d on "source" and on
\* output[p], whatever the other blocks and the legacy keys
VariantsWithOutput(d, p) ==
    { [source |-> d.source, output |-> o, generate_mips |-> g, normal_map |-> n] :
        o \in OutputsWithBlock(BlockOf(d, p), p), g \in BOOLEAN, n \in BOOLEAN }

SettingsFailed == SettingsResolved /\ ~SettingsAccepted

\* the argument vector observed is the one lines 207-224 build from the
\* observed job's tool, source, temporary path and settings
ArgvAsBuilt ==
    \E format_name \in FormatNameAt(os.format) :
       BuildArgv(texturec[1], absolute_path(desc.source[1]),
                 tex_out.path, format_name, os) = argv

\* the job of descriptor d2 resolves the settings, fails or goes on, and
\* builds the argument vector exactly as the job observed has: the
\* settings and the source it hands to lines 207-224 are the observed ones
SameOutcome(d2) ==
    LET r == ResolveSettings(d2, platform)
    IN /\ SettingsResolved =>
             /\ r.os = os
             /\ (r.rc # 0) <=> SettingsFailed
             /\ SettingsFailed => r.err = err
       /\ argv # <<>> =>
             /\ r.os = os
             /\ d2.source = desc.source
             /\ ArgvAsBuilt

\* C9 as stated: the settings for platform P depend only on output[P]: any
\* descriptor agreeing on "source" and output[P] gives the same outcome and
\* the same argument vector, and a key absent from output[P] keeps its
\* default.
C9_DependsOnlyOnOwnBlock ==
    /\ \A d2 \in VariantsAsStated(desc, platform) : SameOutcome(d2)
    /\ (SettingsAccepted /\ has(BlockOf(desc, platform))) =>
          KeepsDefaults(BlockOf(desc, platform)[1])

\* C9 amended: among descriptors that have an "output" object the settings
\* for platform P depend only on output[P]: any such descriptor agreeing on
\* "source" and output[P] gives the same outcome and the same argument
\* vector, whatever its other blocks and its legacy keys; a key absent from
\* output[P] keeps its default, and so do all four when output[P] is absent.
C9_IsolationWithinOutput ==
    has(desc.output) =>
        /\ \A d2 \in VariantsWithOutput(desc, platform) : SameOutcome(d2)
        /\ (SettingsAccepted /\ has(BlockOf(desc, platform))) =>
              KeepsDefaults(BlockOf(desc, platform)[1])
        /\ (SettingsAccepted /\ ~has(BlockOf(desc, platform))) =>
              os = [format |-> RGBA8, generate_mips |-> TRUE,
                    mip_skip_smallest |-> 0, normal_map |-> FALSE]

C9_Witness ==
    /\ has(desc.output)
    /\ \E q \in Platforms \ {platform} :
          /\ has(desc.output[1][q])
          /\ has(desc.output[1][q][1].format)
          /\ texture_format_to_enum(desc.output[1][q][1].format[1]) = COUNT
    /\ has(BlockOf(desc, platform))
    /\ BlockOf(desc, platform)[1].format = <<N_BC3>>
    /\ ~has(BlockOf(desc, platform)[1].generate_mips)
    /\ desc.generate_mips = FALSE
    /\ argv # <<>>
    /\ argv[7] = N_BC3
    /\ argv[9] = S_m
    /\ pc = "done"

(* ------------------------ claims on the file format -------------------- *)
\* C6: a successful compile writes the version tag, then the length of the
\* converter's payload, then the payload; load applied to that stream
\* accepts the tag, reads the whole stream and yields a resource whose
\* payload is the converter's, byte for byte, with its length as size.
C6_RoundTrip ==
    /\ pc = "done" =>
          LET s == Flatten(out)
          IN /\ Len(out) = 3
             /\ Len(s) = 8 + Len(pr.produced)
             /\ ReadU32(s, 0) = VersionTag
             /\ ReadU32(s, 4) = Len(pr.produced)
             /\ SubSeq(s, 9, Len(s)) = pr.produced
    /\ file.compiled =>
          /\ file.stream = Flatten(out)
          /\ file.pos = Len(file.stream)
          /\ ~fatal
    /\ (file.compiled /\ tr # <<>>) =>
          /\ tr[1].data = pr.produced
          /\ tr[1].size = Len(pr.produced)

C6_Witness ==
    /\ file.compiled
    /\ tr # <<>>
    /\ Len(tr[1].data) >= 2
    /\ tr[1].data[1] # tr[1].data[2]
    /\ tr[1].data = pr.produced

(* ---------------------- claims on the job's steps ---------------------- *)
\* nothing past line 181 has happened
NothingStarted ==
    /\ deps = {}
    /\ tex_out.path = <<>>
    /\ argv = <<>>
    /\ pr.state = "none"
    /\ out = <<>>

Args == {argv[i] : i \in 1..Len(argv)}

\* C12: the argument vector is <tool> -f <input> -o <output> -t <format>
\* [-n] [-m] [--mipskip <count>]: -t is followed by the name of the
\* resolved format, -n is an argument iff normal_map, -m iff generate_mips,
\* a flag that is off contributes no argument at all; the scenario
\* descriptor on linux gives format BC3, mips on, skip count 2.
C12_ArgvShape ==
    argv # <<>> =>
        /\ Len(argv) = 7 + (IF os.normal_map THEN 1 ELSE 0)
                         + (IF os.generate_mips THEN 1 ELSE 0)
                         + (IF os.mip_skip_smallest > 0 THEN 2 ELSE 0)
        /\ SubSeq(argv, 1, 6) = <<texturec[1], S_f, absolute_path(desc.source[1]),
                                  S_o, tex_out.path, S_t>>
        /\ os.format \in 0..7
        /\ argv[7] = EnumNames[os.format + 1]
        /\ (S_n \in Args) <=> os.normal_map
        /\ (S_m \in Args) <=> os.generate_mips
        /\ S_empty \notin Args
        /\ os.mip_skip_smallest > 0 =>
              SubSeq(argv, Len(argv) - 1, Len(argv)) = <<S_mipskip, FmtU(os.mip_skip_smallest)>>
        /\ (platform = "linux" /\ BlockOf(desc, platform) = <<ScenarioBlock>>) =>
              /\ argv[7] = N_BC3
              /\ S_m \in Args
              /\ os.mip_skip_smallest = 2

\* C13: a job that fails has made no write, a job that succeeds has made
\* exactly the three writes version tag, payload size, payload in that
\* order, and no write is made while a step that can fail is still ahead.
C13_AllOrNothing ==
    /\ pc = "failed" => out = <<>>
    /\ pc = "done" => out = << U32Bytes(VersionTag), U32Bytes(Len(blob)), blob >>
    /\ pc \notin {"failed", "done"} => out = <<>>

C13_Witness ==
    /\ pc = "done"
    /\ Len(out) = 3
    /\ Len(out[3]) >= 2
    /\ out[2] = U32Bytes(Len(out[3]))

\* C14: a job that spawned the converter has deleted the temporary file
\* by the time it ends, on success and on failure alike; on success the
\* file is read in full, then deleted exactly once, and only then is the
\* output written.
C14_TempFileDeleted ==
    /\ (pc \in {"done", "failed"} /\ pr.state = "exited") => ~tex_out.exists
    /\ pc \in {"write", "done"} =>
          /\ blob = pr.produced
          /\ tex_out.deletes = 1
          /\ ~tex_out.exists
    /\ pc = "write" => out = <<>>
    /\ tex_out.deletes <= 1

(* ---------------------- claims on backend textures --------------------- *)
\* backend textures made from the memory of the instance now allocated
OwnTextures == {h \in DOMAIN textures : textures[h].mem_valid}

\* C15: load creates no backend object: from load to the first online the
\* handle is the invalid one and the instance has no texture; a texture
\* exists for the instance iff it is Online; every texture made by online
\* is destroyed by exactly one offline, and offline never destroys an
\* invalid or already destroyed handle.
C15_TextureIffOnline ==
    /\ life.state = "Loaded" =>
          /\ tr # <<>>
          /\ tr[1].handle = BGFX_INVALID_HANDLE
          /\ OwnTextures = {}
    /\ (tr # <<>> /\ OwnTextures # {}) <=> life.state = "Online"
    /\ life.state = "Online" => OwnTextures = {tr[1].handle}
    /\ tr = <<>> => textures = <<>>
    /\ ~bad_destroy

(* ------------------- claims on the format table lookup ----------------- *)
\* C16: whenever compile gets to build the argument vector the resolved
\* format is one of the eight formats, never COUNT, so the name at argv[6]
\* is read inside s_texture_formats, whatever the descriptor.
C16_FormatIndexInTable ==
    /\ pc \in {"paths", "spawn", "wait", "collect", "write", "done"} =>
          /\ os.format \in 0..(Len(s_texture_formats) - 1)
          /\ os.format # COUNT
    /\ argv # <<>> =>
          /\ os.format \in 0..(Len(s_texture_formats) - 1)
          /\ argv[7] = s_texture_formats[os.format + 1].name

C16_Witness ==
    /\ argv # <<>>
    /\ pc = "wait"
    /\ has(BlockOf(desc, platform))
    /\ BlockOf(desc, platform)[1].format = <<N_RGBA8>>
    /\ os.format = RGBA8
    /\ argv[7] = N_RGBA8

====
